---- MODULE Spec2Model ----
(***************************************************************************)
(* Model of timer-manager.py: class Timer (an elapsed-time counter with an *)
(* optional target and callback) and class Timer_Manager (a dict of named  *)
(* Timer objects reached through attribute access).                        *)
(*                                                                         *)
(* Time is counted in integer ticks of the clock that time.time() reads;   *)
(* the clock never runs backwards and every method reads it once, so a     *)
(* method runs at one instant.  Python's None is the empty tuple and a     *)
(* present value v is <<v>>.                                               *)
(***************************************************************************)
EXTENDS Integers, Sequences, FiniteSets

\* The clock stops advancing at MaxClock.
MaxClock == 3

None == << >>
Some(v) == << v >>

\* The Timer objects of the program: two objects, so that one registry can
\* hold different timers and the same timer under two names.
TimerIds == {1, 2}

\* activation_time arguments given to Timer(...): None, a negative number,
\* 0.0 and two positive durations.
Targets == {None, Some(-1), Some(0), Some(1), Some(2)}

\* call_back arguments given to Timer(...): None, a function that returns
\* normally, a function that raises.
Callbacks == {"None", "returns", "raises"}

\* Attribute names used on a Timer_Manager: two free names, the name of one
\* of its methods, and the mangled name of its backing dict.
Names == {"a", "b", "update", "_Timer_Manager__timers"}

\* Names that normal attribute lookup finds on the class before __getattr__
\* is consulted.
ClassAttributes == {"update"}

VARIABLES
    heap,     \* TimerIds -> Timer object
    timers,   \* the dict Timer_Manager.__timers: a sequence of <<name, id>> in insertion order
    now,      \* the value time.time() returns
    op,       \* the last call made: [name, tid, key, flag]
    ret,      \* what the last call returned: [kind, val]
    err,      \* the exception the last call raised, or "none"
    calls,    \* TimerIds -> number of call_back invocations made by the last call
    pre,      \* heap and timers as they were when the last call was made
    ran,      \* TimerIds -> clock time the timer has spent running since its last reset() (history)
    fired     \* TimerIds -> instants of the last two is_activated(True) calls that returned True (history)

vars == <<heap, timers, now, op, ret, err, calls, pre, ran, fired>>

----------------------------------------------------------------------------
\* class Timer

\* Timer.__init__
__init__(activation_time, call_back) ==
    [target_time |-> activation_time,
     start_time  |-> None,
     time_spend  |-> 0,
     call_back   |-> call_back]

\* get_time_spend() as it would be if it left out the running interval
get_time_spend_banked(self, t) ==
    self.time_spend

\* Timer.get_time_spend
get_time_spend(self, t) ==
    IF self.start_time = None
    THEN self.time_spend
    ELSE self.time_spend + t - self.start_time[1]

\* start() as it would be if it restarted a running timer
start_restarts(self, t) ==
    [self EXCEPT !.start_time = Some(t)]

\* Timer.start: the timer after the call
start(self, t) ==
    IF self.start_time = None
    THEN [self EXCEPT !.start_time = Some(t)]
    ELSE self

\* stop() as it would be if it ignored a timer that is not running
stop_ignores(self, t) ==
    [timer |-> [self EXCEPT !.time_spend = get_time_spend(self, t),
                            !.start_time = None],
     err   |-> "none"]

\* stop() as it would be if it dropped the running interval
stop_drops(self, t) ==
    IF self.start_time # None
    THEN [timer |-> [self EXCEPT !.start_time = None], err |-> "none"]
    ELSE [timer |-> self, err |-> "ValueError"]

\* Timer.stop: the timer after the call and the exception raised
stop(self, t) ==
    IF self.start_time # None
    THEN [timer |-> [self EXCEPT !.time_spend = get_time_spend(self, t),
                                 !.start_time = None],
          err   |-> "none"]
    ELSE [timer |-> self, err |-> "ValueError"]

\* reset() as it would be if it kept the accumulated time
reset_keeps(self) ==
    [self EXCEPT !.start_time = None]

\* Timer.reset: the timer after the call
reset(self) ==
    [self EXCEPT !.start_time = None, !.time_spend = 0]

\* Python truth value of target_time: None and 0.0 are false
truth(target_time) ==
    target_time # None /\ target_time[1] # 0

\* The condition of Timer.is_activated
activated(self, t) ==
    truth(self.target_time) /\ get_time_spend(self, t) >= self.target_time[1]

\* is_activated() as it would be if it reset the timer without restarting it
is_activated_no_restart(self, rst, t) ==
    IF activated(self, t)
    THEN [timer |-> IF rst THEN reset(self) ELSE self, ret |-> TRUE]
    ELSE [timer |-> self, ret |-> FALSE]

\* Timer.is_activated: the timer after the call and the value returned
is_activated(self, rst, t) ==
    IF activated(self, t)
    THEN [timer |-> IF rst THEN start(reset(self), t) ELSE self,
          ret   |-> TRUE]
    ELSE [timer |-> self, ret |-> FALSE]

\* update() as it would be if it reset the timer when it fires
update_resets(self, t) ==
    LET r == is_activated(self, TRUE, t) IN
    IF r.ret /\ r.timer.call_back # "None"
    THEN [timer |-> r.timer,
          calls |-> 1,
          err   |-> IF r.timer.call_back = "raises" THEN "CallbackError" ELSE "none"]
    ELSE [timer |-> r.timer, calls |-> 0, err |-> "none"]

\* Timer.update: the timer after the call, the number of call_back
\* invocations and the exception raised
update(self, t) ==
    LET r == is_activated(self, FALSE, t) IN
    IF r.ret /\ r.timer.call_back # "None"
    THEN [timer |-> r.timer,
          calls |-> 1,
          err   |-> IF r.timer.call_back = "raises" THEN "CallbackError" ELSE "none"]
    ELSE [timer |-> r.timer, calls |-> 0, err |-> "none"]

----------------------------------------------------------------------------
\* The dict Timer_Manager.__timers

\* dict.get(name): Some(id), or None when name is no key
dict_get(d, name) ==
    IF \E i \in 1..Len(d) : d[i][1] = name
    THEN Some(d[CHOOSE i \in 1..Len(d) : d[i][1] = name][2])
    ELSE None

\* d[name] = id: a present key keeps its place, a new key goes last
dict_set(d, name, id) ==
    IF dict_get(d, name) # None
    THEN [i \in 1..Len(d) |-> IF d[i][1] = name THEN <<name, id>> ELSE d[i]]
    ELSE Append(d, <<name, id>>)

\* del d[name]
dict_del(d, name) ==
    SelectSeq(d, LAMBDA e : e[1] # name)

\* Values assigned to an attribute of the manager: a Timer object, or an
\* empty dict as the value that is not a Timer.
TimerValue(id) == [type |-> "Timer", id |-> id]
EmptyDict == [type |-> "dict", id |-> 0]
Values == {TimerValue(id) : id \in TimerIds} \cup {EmptyDict}

Result(kind, val) == [kind |-> kind, val |-> val]
NoResult == Result("None", 0)

----------------------------------------------------------------------------
\* class Timer_Manager

\* Timer_Manager.__getattr__: the value returned and the exception raised
__getattr__(d, name) ==
    LET timer == dict_get(d, name) IN
    IF timer # None
    THEN [ret |-> Result("Timer", timer[1]), err |-> "none"]
    ELSE [ret |-> NoResult, err |-> "AttributeError"]

\* The attribute read manager.<name>: Python consults __getattr__ only when
\* the name is found neither on the instance nor on the class.
attribute_read(d, name) ==
    IF name = "_Timer_Manager__timers"
    THEN [ret |-> Result("dict", d), err |-> "none"]
    ELSE IF name \in ClassAttributes
    THEN [ret |-> Result("method", name), err |-> "none"]
    ELSE __getattr__(d, name)

\* Timer_Manager.__setattr__: the dict after the call and the exception raised
__setattr__(d, name, value) ==
    IF value.type = "Timer"
    THEN [timers |-> dict_set(d, name, value.id), err |-> "none"]
    ELSE IF name = "_Timer_Manager__timers"
    THEN [timers |-> << >>, err |-> "none"]
    ELSE [timers |-> d, err |-> "TypeError"]

\* Timer_Manager.__delattr__: the dict after the call and the exception raised
__delattr__(d, name) ==
    IF dict_get(d, name) # None
    THEN [timers |-> dict_del(d, name), err |-> "none"]
    ELSE [timers |-> d, err |-> "AttributeError"]

\* Timer_Manager.__len__
__len__(d) == Len(d)

\* any(map(f, d.values())) where f returns None: f is applied to every value
\* in the dict's order unless a call raises, which ends the iteration.

\* Timer_Manager.start_all from entry i on: the heap after the call
RECURSIVE start_all_from(_, _, _, _)
start_all_from(h, d, i, t) ==
    IF i > Len(d) THEN h
    ELSE start_all_from([h EXCEPT ![d[i][2]] = start(h[d[i][2]], t)], d, i + 1, t)

\* start_all() as it would be if any() stopped at the first member
start_all_first(h, d, t) ==
    IF Len(d) = 0 THEN h
    ELSE [h EXCEPT ![d[1][2]] = start(h[d[1][2]], t)]

\* Timer_Manager.start_all
start_all(h, d, t) == start_all_from(h, d, 1, t)

\* Timer_Manager.stop_all from entry i on: the heap after the call and the
\* exception raised
RECURSIVE stop_all_from(_, _, _, _)
stop_all_from(h, d, i, t) ==
    IF i > Len(d) THEN [heap |-> h, err |-> "none"]
    ELSE LET r == stop(h[d[i][2]], t) IN
         IF r.err # "none"
         THEN [heap |-> h, err |-> r.err]
         ELSE stop_all_from([h EXCEPT ![d[i][2]] = r.timer], d, i + 1, t)

\* Timer_Manager.stop_all
stop_all(h, d, t) == stop_all_from(h, d, 1, t)

\* Timer_Manager.reset_all from entry i on: the heap after the call
RECURSIVE reset_all_from(_, _, _)
reset_all_from(h, d, i) ==
    IF i > Len(d) THEN h
    ELSE reset_all_from([h EXCEPT ![d[i][2]] = reset(h[d[i][2]])], d, i + 1)

\* Timer_Manager.reset_all
reset_all(h, d) == reset_all_from(h, d, 1)

\* Timer_Manager.update from entry i on: the heap after the call, the
\* call_back invocations made (c holds those made so far) and the exception
\* raised
RECURSIVE update_all_from(_, _, _, _, _)
update_all_from(h, d, i, t, c) ==
    IF i > Len(d) THEN [heap |-> h, calls |-> c, err |-> "none"]
    ELSE LET id == d[i][2]
             r  == update(h[id], t)
             h2 == [h EXCEPT ![id] = r.timer]
             c2 == [c EXCEPT ![id] = @ + r.calls]
         IN  IF r.err # "none"
             THEN [heap |-> h2, calls |-> c2, err |-> r.err]
             ELSE update_all_from(h2, d, i + 1, t, c2)

NoCalls == [id \in TimerIds |-> 0]

\* Timer_Manager.update() as it would be if it swallowed a call_back's exception
Timer_Manager_update_catches(h, d, t) ==
    [update_all_from(h, d, 1, t, NoCalls) EXCEPT !.err = "none"]

\* Timer_Manager.update
Timer_Manager_update(h, d, t) == update_all_from(h, d, 1, t, NoCalls)

\* Timer_Manager.get_activated from entry i on: the heap after the call and
\* the list returned (acc holds the entries kept so far)
RECURSIVE get_activated_from(_, _, _, _, _, _)
get_activated_from(h, d, i, rst, t, acc) ==
    IF i > Len(d) THEN [heap |-> h, ret |-> acc]
    ELSE LET id == d[i][2]
             r  == is_activated(h[id], rst, t)
         IN  get_activated_from([h EXCEPT ![id] = r.timer], d, i + 1, rst, t,
                                IF r.ret THEN Append(acc, d[i]) ELSE acc)

\* Timer_Manager.get_activated
get_activated(h, d, rst, t) == get_activated_from(h, d, 1, rst, t, << >>)

\* Timer_Manager.get_all_timers
get_all_timers(d) == d

----------------------------------------------------------------------------
\* The program as a state machine: a driver that holds the manager and the
\* Timer objects and makes one call at a time.

Call(name, tid, key, flag) == [name |-> name, tid |-> tid, key |-> key, flag |-> flag]

\* The call is an is_activated(True) on timer id that returned True, made
\* directly or by get_activated(True) for an entry it returned
ReturnedTrue(call, r, id) ==
    /\ call.flag
    /\ \/ call.name = "is_activated" /\ call.tid = id /\ r.val
       \/ call.name = "get_activated" /\ \E i \in 1..Len(r.val) : r.val[i][2] = id

\* The call called reset() on timer id
WasReset(call, r, id) ==
    \/ call.name = "reset" /\ call.tid = id
    \/ call.name = "reset_all" /\ \E i \in 1..Len(timers) : timers[i][2] = id
    \/ ReturnedTrue(call, r, id)

\* What the driver sees of a call: the call, its result, and the objects
\* as they were when it was made; and the history of each timer.
Returns(call, r, e, c) ==
    /\ op' = call
    /\ ret' = r
    /\ err' = e
    /\ calls' = c
    /\ pre' = [heap |-> heap, timers |-> timers]
    /\ ran' = [id \in TimerIds |->
                IF call.name = "tick"
                THEN ran[id] + (IF heap[id].start_time # None THEN 1 ELSE 0)
                ELSE IF WasReset(call, r, id) THEN 0 ELSE ran[id]]
    /\ fired' = [id \in TimerIds |->
                  IF ~ReturnedTrue(call, r, id) THEN fired[id]
                  ELSE IF fired[id] = << >> THEN <<now>>
                  ELSE <<fired[id][Len(fired[id])], now>>]

\* time passes
Tick ==
    /\ now < MaxClock
    /\ now' = now + 1
    /\ Returns(Call("tick", 0, "", FALSE), NoResult, "none", NoCalls)
    /\ UNCHANGED <<heap, timers>>

\* heap[id].get_time_spend()
GetTimeSpend(id) ==
    /\ Returns(Call("get_time_spend", id, "", FALSE),
               Result("float", get_time_spend(heap[id], now)), "none", NoCalls)
    /\ UNCHANGED <<heap, timers, now>>

\* heap[id].start()
Start(id) ==
    /\ heap' = [heap EXCEPT ![id] = start(heap[id], now)]
    /\ Returns(Call("start", id, "", FALSE), NoResult, "none", NoCalls)
    /\ UNCHANGED <<timers, now>>

\* heap[id].stop()
Stop(id) ==
    LET r == stop(heap[id], now) IN
    /\ heap' = [heap EXCEPT ![id] = r.timer]
    /\ Returns(Call("stop", id, "", FALSE), NoResult, r.err, NoCalls)
    /\ UNCHANGED <<timers, now>>

\* heap[id].reset()
Reset(id) ==
    /\ heap' = [heap EXCEPT ![id] = reset(heap[id])]
    /\ Returns(Call("reset", id, "", FALSE), NoResult, "none", NoCalls)
    /\ UNCHANGED <<timers, now>>

\* heap[id].is_activated(rst)
IsActivated(id, rst) ==
    LET r == is_activated(heap[id], rst, now) IN
    /\ heap' = [heap EXCEPT ![id] = r.timer]
    /\ Returns(Call("is_activated", id, "", rst), Result("bool", r.ret), "none", NoCalls)
    /\ UNCHANGED <<timers, now>>

\* heap[id].update()
Update(id) ==
    LET r == update(heap[id], now) IN
    /\ heap' = [heap EXCEPT ![id] = r.timer]
    /\ Returns(Call("update", id, "", FALSE), NoResult, r.err,
               [NoCalls EXCEPT ![id] = r.calls])
    /\ UNCHANGED <<timers, now>>

\* manager.<name>
GetAttr(name) ==
    LET r == attribute_read(timers, name) IN
    /\ Returns(Call("getattr", 0, name, FALSE), r.ret, r.err, NoCalls)
    /\ UNCHANGED <<heap, timers, now>>

\* manager.<name> = value
SetAttr(name, value) ==
    LET r == __setattr__(timers, name, value) IN
    /\ timers' = r.timers
    /\ Returns(Call("setattr", value.id, name, value.type = "Timer"),
               NoResult, r.err, NoCalls)
    /\ UNCHANGED <<heap, now>>

\* del manager.<name>
DelAttr(name) ==
    LET r == __delattr__(timers, name) IN
    /\ timers' = r.timers
    /\ Returns(Call("delattr", 0, name, FALSE), NoResult, r.err, NoCalls)
    /\ UNCHANGED <<heap, now>>

\* len(manager)
LenCall ==
    /\ Returns(Call("len", 0, "", FALSE), Result("int", __len__(timers)), "none", NoCalls)
    /\ UNCHANGED <<heap, timers, now>>

\* manager.update()
UpdateAll ==
    LET r == Timer_Manager_update(heap, timers, now) IN
    /\ heap' = r.heap
    /\ Returns(Call("Timer_Manager.update", 0, "", FALSE), NoResult, r.err, r.calls)
    /\ UNCHANGED <<timers, now>>

\* manager.start_all()
StartAll ==
    /\ heap' = start_all(heap, timers, now)
    /\ Returns(Call("start_all", 0, "", FALSE), NoResult, "none", NoCalls)
    /\ UNCHANGED <<timers, now>>

\* manager.stop_all()
StopAll ==
    LET r == stop_all(heap, timers, now) IN
    /\ heap' = r.heap
    /\ Returns(Call("stop_all", 0, "", FALSE), NoResult, r.err, NoCalls)
    /\ UNCHANGED <<timers, now>>

\* manager.reset_all()
ResetAll ==
    /\ heap' = reset_all(heap, timers)
    /\ Returns(Call("reset_all", 0, "", FALSE), NoResult, "none", NoCalls)
    /\ UNCHANGED <<timers, now>>

\* manager.get_activated(rst)
GetActivated(rst) ==
    LET r == get_activated(heap, timers, rst, now) IN
    /\ heap' = r.heap
    /\ Returns(Call("get_activated", 0, "", rst), Result("list", r.ret), "none", NoCalls)
    /\ UNCHANGED <<timers, now>>

\* manager.get_all_timers()
GetAllTimers ==
    /\ Returns(Call("get_all_timers", 0, "", FALSE),
               Result("list", get_all_timers(timers)), "none", NoCalls)
    /\ UNCHANGED <<heap, timers, now>>

\* The state after the constructors have run: the Timer objects as
\* Timer(...) leaves them and a Timer_Manager with an empty dict.
Constructed(h) ==
    /\ heap = h
    /\ timers = << >>
    /\ now = 0
    /\ op = Call("__init__", 0, "", FALSE)
    /\ ret = NoResult
    /\ err = "none"
    /\ calls = NoCalls
    /\ pre = [heap |-> h, timers |-> << >>]
    /\ ran = [id \in TimerIds |-> 0]
    /\ fired = [id \in TimerIds |-> << >>]

\* Timer(1.0, call_back=f) and Timer(2.0, call_back=g) with g raising
ManagedTimers ==
    {[id \in TimerIds |-> IF id = 1 THEN __init__(Some(1), "returns")
                                    ELSE __init__(Some(2), "raises")]}

\* The names the batch operations are exercised with
BatchNames == {"a", "b"}

\* The names attribute access is exercised with
AttrNames == Names \ {"b"}

\* The timer the single-timer specification drives
Standalone == {1}

\* A manager holding up to two Timer objects, driven through the batch
\* operations and through the timers themselves.
Init == \E h \in ManagedTimers : Constructed(h)

Next ==
    \/ Tick
    \/ \E id \in TimerIds : Start(id)
    \/ \E id \in TimerIds : Stop(id)
    \/ \E id \in TimerIds : Reset(id)
    \/ \E name \in BatchNames, id \in TimerIds : SetAttr(name, TimerValue(id))
    \/ \E name \in BatchNames : DelAttr(name)
    \/ UpdateAll
    \/ StartAll
    \/ StopAll
    \/ ResetAll
    \/ \E rst \in BOOLEAN : GetActivated(rst)

Spec == Init /\ [][Next]_vars

\* One Timer of every construction, driven directly.
InitTimer ==
    \E a \in Targets, c \in Callbacks :
        Constructed([id \in TimerIds |-> IF id \in Standalone THEN __init__(a, c)
                                         ELSE __init__(None, "None")])

NextTimer ==
    \/ Tick
    \/ \E id \in Standalone : GetTimeSpend(id)
    \/ \E id \in Standalone : Start(id)
    \/ \E id \in Standalone : Stop(id)
    \/ \E id \in Standalone : Reset(id)
    \/ \E id \in Standalone, rst \in BOOLEAN : IsActivated(id, rst)
    \/ \E id \in Standalone : Update(id)

SpecTimer == InitTimer /\ [][NextTimer]_vars

\* Attribute access on the manager: assignment, read and deletion under
\* every kind of name, with Timer and non-Timer values.
InitAttr == \E h \in ManagedTimers : Constructed(h)

NextAttr ==
    \/ \E name \in AttrNames : GetAttr(name)
    \/ \E name \in AttrNames, value \in Values : SetAttr(name, value)
    \/ \E name \in AttrNames : DelAttr(name)
    \/ LenCall
    \/ GetAllTimers

SpecAttr == InitAttr /\ [][NextAttr]_vars

\* The name the driver registers a timer under
DriverNames == {"a"}

\* Every operation of both classes, on two timers of which one at a time is
\* held by the manager.
InitDriver == \E h \in ManagedTimers : Constructed(h)

NextDriver ==
    \/ Tick
    \/ \E id \in TimerIds : GetTimeSpend(id)
    \/ \E id \in TimerIds : Start(id)
    \/ \E id \in TimerIds : Stop(id)
    \/ \E id \in TimerIds : Reset(id)
    \/ \E id \in TimerIds, rst \in BOOLEAN : IsActivated(id, rst)
    \/ \E id \in TimerIds : Update(id)
    \/ \E name \in DriverNames : GetAttr(name)
    \/ \E name \in DriverNames, value \in Values : SetAttr(name, value)
    \/ \E name \in DriverNames : DelAttr(name)
    \/ LenCall
    \/ UpdateAll
    \/ StartAll
    \/ StopAll
    \/ ResetAll
    \/ \E rst \in BOOLEAN : GetActivated(rst)
    \/ GetAllTimers

SpecDriver == InitDriver /\ [][NextDriver]_vars

\* The batch operations that apply a Timer method returning None to every
\* member, on a manager holding up to two Timer objects.
InitBatch == \E h \in ManagedTimers : Constructed(h)

NextBatch ==
    \/ Tick
    \/ \E id \in TimerIds : Start(id)
    \/ \E id \in TimerIds : Stop(id)
    \/ \E id \in TimerIds : Update(id)
    \/ \E name \in BatchNames, id \in TimerIds : SetAttr(name, TimerValue(id))
    \/ \E name \in BatchNames : DelAttr(name)
    \/ UpdateAll
    \/ StartAll
    \/ StopAll
    \/ ResetAll

SpecBatch == InitBatch /\ [][NextBatch]_vars

\* One Timer of every construction that is started and polled, never
\* stopped or reset, by a driver that keeps polling while the clock keeps
\* advancing.
InitLive == InitTimer

NextLive ==
    \/ Tick
    \/ \E id \in Standalone : Start(id)
    \/ \E id \in Standalone : IsActivated(id, FALSE)
    \/ \E id \in Standalone : Update(id)

SpecLive ==
    /\ InitLive /\ [][NextLive]_vars
    /\ WF_vars(Tick)
    /\ WF_vars(\E id \in Standalone : IsActivated(id, FALSE))
    /\ WF_vars(\E id \in Standalone : Update(id))

----------------------------------------------------------------------------
\* Properties

\* elapsed() of timer id now, and at the instant the last call was made
Elapsed(id) == get_time_spend(heap[id], now)
PreElapsed(id) == get_time_spend(pre.heap[id], now)

Running(h, id) == h[id].start_time # None

\* is_activated(False) of timer id of heap h would return True at instant t
Activated(h, id, t) == is_activated(h[id], FALSE, t).ret

\* The Timer objects the manager holds
Registered == {timers[i][2] : i \in 1..Len(timers)}

\* C1: stop_all() on a registry in which some timers are running and some
\* are not raises nothing and leaves every registered timer stopped, each
\* previously running one with its interval added to its accumulated time.
C1_StopAllSkipsStopped ==
    (/\ op.name = "stop_all"
     /\ \E id \in Registered : Running(pre.heap, id)
     /\ \E id \in Registered : ~Running(pre.heap, id))
    => /\ err = "none"
       /\ \A id \in Registered :
            /\ ~Running(heap, id)
            /\ Running(pre.heap, id) => heap[id].time_spend = PreElapsed(id)

\* C2: the read manager.<name> that follows the assignment manager.<name> = t
\* of a Timer t returns t, for every name.
C2_GetAfterSet ==
    [][(/\ op.name = "setattr" /\ op.flag
        /\ op'.name = "getattr" /\ op'.key = op.key)
       => (/\ err' = "none"
           /\ ret'.kind = "Timer"
           /\ ret'.val = op.tid)]_vars

\* C3: stop() on a timer that is not running raises ValueError and leaves
\* the timer as it was; stop() on a running timer raises nothing.
C3_StopNotRunningFails ==
    \A id \in TimerIds :
        (op.name = "stop" /\ op.tid = id)
        => IF Running(pre.heap, id)
           THEN err = "none"
           ELSE err = "ValueError" /\ heap[id] = pre.heap[id]

\* stop() has failed on a timer that was stopped before with time banked
C3_Witness ==
    /\ op.name = "stop" /\ op.tid = 1
    /\ err = "ValueError"
    /\ heap[1].time_spend > 0

\* C4: is_activated(False) returns True exactly when a target is set and
\* elapsed() >= target, leaves the timer unchanged, and returns False for a
\* timer with no target.
C4_ActivatedIffTargetReached ==
    \A id \in TimerIds :
        (op.name = "is_activated" /\ ~op.flag /\ op.tid = id)
        => /\ ret.val <=> (/\ pre.heap[id].target_time # None
                           /\ PreElapsed(id) >= pre.heap[id].target_time[1])
           /\ heap[id] = pre.heap[id]

\* C5: is_activated(True) on a timer for which is_activated(False) would
\* return True returns True and leaves it running from this instant with no
\* accumulated time; on any other timer it returns False and changes nothing.
C5_ResetOnActivation ==
    \A id \in TimerIds :
        (op.name = "is_activated" /\ op.flag /\ op.tid = id)
        => IF Activated(pre.heap, id, now)
           THEN /\ ret.val = TRUE
                /\ heap[id].start_time = Some(now)
                /\ heap[id].time_spend = 0
                /\ Elapsed(id) = 0
           ELSE /\ ret.val = FALSE
                /\ heap[id] = pre.heap[id]

\* is_activated(True) has returned True on a timer that was stopped
C5_Witness ==
    /\ op.name = "is_activated" /\ op.flag /\ op.tid = 1
    /\ ret.val = TRUE
    /\ ~Running(pre.heap, 1)
    /\ pre.heap[1].time_spend > 0

\* C6: update() leaves the timer as it was and invokes call_back once when
\* the timer is activated and has a call_back, and not at all otherwise.
C6_UpdateOnlyCallsBack ==
    \A id \in TimerIds :
        (op.name = "update" /\ op.tid = id)
        => /\ heap[id] = pre.heap[id]
           /\ calls[id] = IF Activated(pre.heap, id, now) /\ pre.heap[id].call_back # "None"
                          THEN 1 ELSE 0

\* update() has invoked the call_back of a running, activated timer
C6_Witness ==
    /\ op.name = "update" /\ op.tid = 1
    /\ calls[1] = 1
    /\ Running(heap, 1)
    /\ Activated(heap, 1, now)

\* C7: an activated timer stays activated through every call and clock
\* advance except reset() and is_activated(True).
C7_StaysActivated ==
    [][\A id \in TimerIds :
        (/\ Activated(heap, id, now)
         /\ op'.name # "reset"
         /\ ~(op'.name = "is_activated" /\ op'.flag))
        => Activated(heap', id, now')]_vars

\* stop() has acted on a running, activated timer
C7_Witness ==
    /\ op.name = "stop" /\ op.tid = 1
    /\ err = "none"
    /\ Running(pre.heap, 1)
    /\ pre.heap[1].start_time[1] < now
    /\ Activated(pre.heap, 1, now)

\* C8: start() raises nothing and leaves the timer running; on a running
\* timer it changes nothing, and elapsed() at the instant of the call is
\* the same before and after it.
C8_StartIdempotent ==
    \A id \in TimerIds :
        (op.name = "start" /\ op.tid = id)
        => /\ err = "none"
           /\ Running(heap, id)
           /\ Running(pre.heap, id) => heap[id] = pre.heap[id]
           /\ Elapsed(id) = PreElapsed(id)
           /\ start(heap[id], now) = heap[id]

\* start() has been called on a timer that was running for a while
C8_Witness ==
    /\ op.name = "start" /\ op.tid = 1
    /\ Running(pre.heap, 1)
    /\ pre.heap[1].start_time[1] < now

\* Timer id of heap h is stopped with no accumulated time
Zeroed(h, id) == h[id].start_time = None /\ h[id].time_spend = 0

\* The last call called start() on timer id
Starts(id) ==
    /\ op.tid = id
    /\ \/ op.name = "start"
       \/ op.name = "is_activated" /\ op.flag /\ ret.val = TRUE

\* C9: a constructed timer and a timer after reset() are stopped with no
\* accumulated time, and elapsed() of such a timer stays zero through every
\* call and clock advance until start() is called on it.
C9_ResetZeroes ==
    \A id \in TimerIds :
        /\ op.name = "__init__" => Zeroed(heap, id)
        /\ (op.name = "reset" /\ op.tid = id) => Zeroed(heap, id)
        /\ (Zeroed(pre.heap, id) /\ ~Starts(id)) => (Zeroed(heap, id) /\ Elapsed(id) = 0)

\* reset() has been called on a running timer that had time banked and an
\* interval in progress
C9_Witness ==
    /\ op.name = "reset" /\ op.tid = 1
    /\ Running(pre.heap, 1)
    /\ pre.heap[1].start_time[1] < now
    /\ pre.heap[1].time_spend > 0

\* C10: get_activated(rst) returns each registered (name, Timer) entry whose
\* timer is activated at the instant of the call, once, and no other; it
\* leaves the timers that are not activated unchanged, with rst False the
\* activated ones too, and with rst True every returned timer is running
\* with no accumulated time.
C10_GetActivatedExact ==
    op.name = "get_activated"
    => LET want == SelectSeq(pre.timers, LAMBDA e : Activated(pre.heap, e[2], now))
           got  == ret.val
       IN  /\ Len(got) = Len(want)
           /\ {got[i] : i \in 1..Len(got)} = {want[i] : i \in 1..Len(want)}
           /\ \A id \in TimerIds :
                (~Activated(pre.heap, id, now) \/ ~op.flag) => heap[id] = pre.heap[id]
           /\ op.flag => \A i \in 1..Len(got) :
                /\ Running(heap, got[i][2])
                /\ heap[got[i][2]].time_spend = 0

\* The last call left every timer and the dict as they were
Unchanged == heap = pre.heap /\ timers = pre.timers

\* C11: the read manager.<name> and del manager.<name> of a name that is not
\* registered raise AttributeError and change nothing; del manager.<name> of
\* a registered name removes that entry and no other, after which the read
\* manager.<name> raises AttributeError.
C11_NotFound ==
    \A name \in Names :
        /\ (op.name = "getattr" /\ op.key = name /\ dict_get(pre.timers, name) = None)
           => (err = "AttributeError" /\ Unchanged)
        /\ (op.name = "delattr" /\ op.key = name)
           => IF dict_get(pre.timers, name) = None
              THEN err = "AttributeError" /\ Unchanged
              ELSE /\ err = "none"
                   /\ heap = pre.heap
                   /\ timers = SelectSeq(pre.timers, LAMBDA e : e[1] # name)
                   /\ attribute_read(timers, name).err = "AttributeError"

\* C15: assigning a value that is not a Timer raises TypeError under every
\* name and leaves the dict as it was.
C15_NonTimerRejected ==
    (op.name = "setattr" /\ ~op.flag)
    => (err = "TypeError" /\ timers = pre.timers)

\* C12: start_all() raises nothing and leaves every registered timer
\* running, those that were running as they were; reset_all() raises nothing
\* and leaves every registered timer stopped with no accumulated time.
C12_StartAllResetAll ==
    /\ op.name = "start_all"
       => /\ err = "none"
          /\ \A id \in Registered :
               /\ Running(heap, id)
               /\ Running(pre.heap, id) => heap[id] = pre.heap[id]
    /\ op.name = "reset_all"
       => /\ err = "none"
          /\ \A id \in Registered : Zeroed(heap, id)

\* start_all() has been called on two timers, the first of them running for
\* a while and the second stopped
C12_Witness ==
    /\ op.name = "start_all"
    /\ Len(timers) = 2
    /\ timers[1][2] # timers[2][2]
    /\ Running(pre.heap, timers[1][2])
    /\ pre.heap[timers[1][2]].start_time[1] < now
    /\ ~Running(pre.heap, timers[2][2])

\* C13: when a call_back raises in update() or in the manager's update(),
\* the exception reaches the caller, and no timer and no entry of the dict
\* has been changed.
C13_CallbackErrorPropagates ==
    /\ \A id \in TimerIds :
         (/\ op.name = "update" /\ op.tid = id
          /\ Activated(pre.heap, id, now)
          /\ pre.heap[id].call_back = "raises")
         => (err = "CallbackError" /\ Unchanged)
    /\ (/\ op.name = "Timer_Manager.update"
        /\ \E id \in Registered :
             Activated(pre.heap, id, now) /\ pre.heap[id].call_back = "raises")
       => (err = "CallbackError" /\ Unchanged)

\* The manager's update() has raised from the call_back of its first member,
\* before reaching its second, activated member
C13_Witness ==
    /\ op.name = "Timer_Manager.update"
    /\ err = "CallbackError"
    /\ Len(timers) = 2
    /\ timers[1][2] = 2 /\ timers[2][2] = 1
    /\ Activated(heap, 1, now)
    /\ calls[1] = 0

\* C14: time_spend of a timer changes only in stop(), where it grows by
\* now - start_time, and in reset(), where it becomes zero: directly, in
\* stop_all() and reset_all(), and in the reset() of an is_activated(True)
\* that returns True (directly or in get_activated(True)).  No other call
\* and no clock advance changes it.
C14_AccumulatedFrame ==
    \A id \in TimerIds :
        LET old == pre.heap[id].time_spend
            new == heap[id].time_spend
            banked == Running(pre.heap, id)
                      /\ new = old + now - pre.heap[id].start_time[1]
        IN  /\ (op.name = "stop" /\ op.tid = id /\ err = "none") => banked
            /\ (op.name = "reset" /\ op.tid = id) => new = 0
            /\ (op.name = "is_activated" /\ op.tid = id /\ op.flag /\ ret.val) => new = 0
            /\ new # old
               => \/ op.name = "stop" /\ op.tid = id
                  \/ op.name = "reset" /\ op.tid = id
                  \/ op.name = "is_activated" /\ op.tid = id /\ op.flag /\ ret.val
                  \/ op.name = "stop_all" /\ id \in Registered /\ banked
                  \/ op.name = "reset_all" /\ id \in Registered /\ new = 0
                  \/ op.name = "get_activated" /\ op.flag /\ id \in Registered /\ new = 0

\* stop() has added a running interval to time already banked
C14_Witness ==
    /\ op.name = "stop" /\ op.tid = 1
    /\ err = "none"
    /\ pre.heap[1].time_spend > 0
    /\ heap[1].time_spend > pre.heap[1].time_spend

\* C16: elapsed() is the clock time the timer has spent running since its
\* last reset() or its construction; so it is never negative, does not
\* change over a clock advance while the timer is stopped, and is the same
\* before and after stop() and start().
C16_ElapsedIsRunningTime ==
    \A id \in TimerIds :
        /\ Elapsed(id) = ran[id]
        /\ Elapsed(id) >= 0
        /\ (op.name = "tick" /\ ~Running(heap, id))
           => Elapsed(id) = get_time_spend(pre.heap[id], now - 1)
        /\ (op.name \in {"stop", "start"} /\ op.tid = id)
           => Elapsed(id) = PreElapsed(id)

\* A timer stopped with time banked has been started again and has run on
C16_Witness ==
    /\ Running(heap, 1)
    /\ heap[1].time_spend > 0
    /\ heap[1].start_time[1] < now
    /\ op.name = "tick"

\* C18: between two consecutive is_activated(True) calls on a timer with
\* target D > 0 that return True, made directly or by get_activated(True),
\* the clock advances by at least D.
C18_FiresAtLeastTargetApart ==
    \A id \in TimerIds :
        (/\ Len(fired[id]) = 2
         /\ heap[id].target_time # None
         /\ heap[id].target_time[1] > 0)
        => fired[id][2] - fired[id][1] >= heap[id].target_time[1]

\* get_activated(True) has returned a timer that is_activated(True) had
\* returned True for before, with the timer stopped and started in between
C18_Witness ==
    /\ op.name = "get_activated" /\ op.flag
    /\ Len(fired[1]) = 2
    /\ fired[1][2] = now
    /\ pre.heap[1].time_spend > 0

\* C17: stop_all() called right after start_all() raises nothing and leaves
\* every registered timer stopped.
C17_StartAllThenStopAll ==
    [][(op.name = "start_all" /\ op'.name = "stop_all")
       => (/\ err' = "none"
           /\ \A i \in 1..Len(timers) : ~Running(heap', timers[i][2]))]_vars

\* Timer id has a target D > 0 and is running, started early enough for the
\* clock of the model to advance by D
Started(id) ==
    /\ Running(heap, id)
    /\ heap[id].target_time # None
    /\ heap[id].target_time[1] > 0
    /\ heap[id].start_time[1] + heap[id].target_time[1] <= MaxClock

\* C19: a started timer with a target D > 0 that is never stopped or reset
\* leads to is_activated(False) returning True and, if it has a call_back,
\* to update() invoking it.
C19_EventuallyActivated ==
    \A id \in Standalone :
        /\ Started(id)
           ~> (op.name = "is_activated" /\ op.tid = id /\ ret.val)
        /\ (Started(id) /\ heap[id].call_back # "None")
           ~> (op.name = "update" /\ op.tid = id /\ calls[id] = 1)

\* update() has invoked the call_back of a timer started after the clock
\* had advanced
C19_Witness ==
    /\ op.name = "update" /\ op.tid = 1
    /\ calls[1] = 1
    /\ Running(heap, 1)
    /\ heap[1].start_time[1] > 0

====
